---- MODULE Spec2Model ----
(***************************************************************************)
(* The 'gcsarchive' DAG of logistics.py as a state machine: one daily run  *)
(* is the chain                                                            *)
(*   sense_logistics_file >> create_hive_database >> create_hive_table     *)
(*     >> create_partitioned_table                                         *)
(*     >> set_hive_properties_and_load_partitioned                         *)
(*     >> archive_processed_file                                           *)
(* run by the scheduler with the operators' default settings wherever the  *)
(* file sets none (trigger rule all_success, soft_fail/silent_fail off).   *)
(* The environment is the GCS buckets, the Dataproc job registry and the   *)
(* outcome of every remote call.                                           *)
(***************************************************************************)
EXTENDS Integers, Sequences, FiniteSets, TLC

\* ---------------------------------------------------------------- bounds
\* Number of DAG runs explored one after the other.
MaxRuns == 2
\* Number of distinct logistics_<n>.csv files that may land.
NumCsv == 3
\* A poke interval is cut into this many clock ticks in SenseSpec.
PollSlices == 3
\* Longest duration of one existence check, in clock ticks.
MaxPokeLatency == 1

\* ------------------------------------------------- configuration (source)
\* Variant: one automatic retry.
retries_one == 0 + 1
retries == 0
timeout == 300
poke_interval == 30
\* Variant: a raising check is logged and polling goes on.
silent_fail_on == TRUE
\* BaseSensorOperator's default, which the sensor's arguments leave alone.
silent_fail == FALSE

chain ==
  << "sense_logistics_file", "create_hive_database", "create_hive_table",
     "create_partitioned_table", "set_hive_properties_and_load_partitioned",
     "archive_processed_file" >>

Tasks == { chain[i] : i \in 1..Len(chain) }
SenseIdx == 1
ArchiveIdx == Len(chain)
JobIdxs == 2..(Len(chain) - 1)

\* reference.job_id of each DataprocSubmitJobOperator
job_id ==
  [ create_hive_database |-> "create-hive-db",
    create_hive_table |-> "create-hive-table",
    create_partitioned_table |-> "create-partitioned-table",
    set_hive_properties_and_load_partitioned |-> "set-hive-properties" ]

JobIds == { job_id[chain[k]] : k \in JobIdxs }
LoadTask == "set_hive_properties_and_load_partitioned"

\* What each job's statement creates when it is not there yet (IF NOT EXISTS).
Creates ==
  [ create_hive_database |-> { "logistics_db" },
    create_hive_table |-> { "logistics_db.logistics_data" },
    create_partitioned_table |-> { "logistics_db.logistics_data_partitioned" },
    set_hive_properties_and_load_partitioned |-> {} ]

\* What each job's statement names and so needs to exist.
Requires ==
  [ create_hive_database |-> {},
    create_hive_table |-> { "logistics_db" },
    create_partitioned_table |-> { "logistics_db" },
    set_hive_properties_and_load_partitioned |->
      { "logistics_db.logistics_data", "logistics_db.logistics_data_partitioned" } ]

\* ------------------------------------------------------------ object names
\* An object key is a sequence of name parts; a "/" only ends a part.
prefix == << "input_data/", "logistics_" >>

Stem(i) == << "1", "2", "3", "4", "5", "6" >>[i]

CsvObject(i) == << "input_data/", "logistics_", Stem(i), ".csv" >>
TxtObject == << "input_data/", "logistics_", "notes", ".txt" >>
OtherObject == << "input_data/", "manifest", ".csv" >>

Objects == { CsvObject(i) : i \in 1..NumCsv } \cup { TxtObject, OtherObject }

HasSlash(part) == part \in { "input_data/" }

\* GCSObjectsWithPrefixExistenceSensor: the key starts with the prefix.
HasPrefix(o) ==
  /\ Len(o) >= Len(prefix)
  /\ SubSeq(o, 1, Len(prefix)) = prefix

\* gs://logistics_raw/input_data/logistics_*.csv: the wildcard stands for any
\* parts without a "/".
MatchesPattern(o) ==
  /\ Len(o) >= 3
  /\ o[1] = "input_data/"
  /\ o[2] = "logistics_"
  /\ o[Len(o)] = ".csv"
  /\ \A i \in 3..(Len(o) - 1) : ~HasSlash(o[i])

\* mv to the bucket root keeps the last path component of the key.
ArchiveKey(o) == SubSeq(o, 2, Len(o))

\* Variant: any object in the bucket satisfies the sensor.
poke_any(bucket) == bucket # {}

\* The sensor's poke(): some object with the prefix exists.
poke(bucket) == \E o \in bucket : HasPrefix(o)

\* Variant: the command moves whatever the sensor accepts.
Matched_prefix(bucket) == { o \in bucket : HasPrefix(o) }

Matched(bucket) == { o \in bucket : MatchesPattern(o) }

\* The files of the external table logistics_data: every object under its
\* LOCATION gs://logistics_raw/input_data/.
TableFiles(bucket) == { o \in bucket : Len(o) >= 2 /\ o[1] = "input_data/" }

\* Variant: the source may be deleted although its copy failed.
Deletions_uncopied(m, copied) == SUBSET m

\* mv deletes a source object only after its copy succeeded.
Deletions(m, copied) == SUBSET copied

\* ------------------------------------------------------------------ state
VARIABLES
  dagrun,    \* run -> state of the DAG run
  ti,        \* run -> task -> task instance state
  tries,     \* run -> task -> number of attempts started
  err,       \* run -> task -> error that failed the task
  raw,       \* objects of bucket logistics_raw
  archive,   \* keys of bucket logistics_archive
  jobs,      \* job id -> run whose submission Dataproc holds under it (0: none)
  refusal,   \* run -> task -> run holding the job id the submission was refused for
  hive,      \* databases and tables of the metastore
  loaded,    \* run -> followed objects whose rows the run's load step inserted
  sensor,    \* the latest run's sensor process: the locals of its execute()
  gsutil     \* the latest run's archive command: what it matched and moved

vars ==
  << dagrun, ti, tries, err, raw, archive, jobs, refusal, hive, loaded,
     sensor, gsutil >>

Runs == 1..MaxRuns
NoTime == 0 - 1
\* Variant: a task never run does not count as finished.
Finished_strict == { "success", "failed" }

Finished == { "success", "failed", "upstream_failed" }
Terminal == { "success", "failed" }

Idle ==
  [ pc |-> "idle", elapsed |-> 0, poke_start |-> NoTime, prev_start |-> NoTime,
    wake_at |-> 0, first_seen |-> NoTime, done_at |-> NoTime, pokes |-> 0,
    saw |-> "none", run |-> 0, appeared |-> FALSE, first_ok |-> FALSE ]

\* What is left of a sensor process that has exited: whether an object with
\* the prefix existed while it ran, and whether its first check was positive.
Exited(s) ==
  [ Idle EXCEPT !.pc = "exited", !.run = s.run, !.appeared = s.appeared,
                !.first_ok = s.first_ok ]

NoCommand == [ run |-> 0, matched |-> {}, moved |-> {} ]

Init ==
  /\ dagrun = [ r \in Runs |-> "none" ]
  /\ ti = [ r \in Runs |-> [ t \in Tasks |-> "none" ] ]
  /\ tries = [ r \in Runs |-> [ t \in Tasks |-> 0 ] ]
  /\ err = [ r \in Runs |-> [ t \in Tasks |-> "none" ] ]
  /\ raw = {}
  /\ archive = {}
  /\ jobs = [ j \in JobIds |-> 0 ]
  /\ refusal = [ r \in Runs |-> [ t \in Tasks |-> 0 ] ]
  /\ hive = {}
  /\ loaded = [ r \in Runs |-> {} ]
  /\ sensor = Idle
  /\ gsutil = NoCommand


\* -------------------------------------------------------- scheduler rules
\* Variant: trigger rule all_done.
DepsMet_all_done(r, i) ==
  IF i = 1 THEN TRUE ELSE ti[r][chain[i - 1]] \in { "success", "failed" }

\* Variant: every task waits for the sensor alone.
DepsMet_after_sense(r, i) == IF i = 1 THEN TRUE ELSE ti[r][chain[1]] = "success"

\* a >> b with the default trigger rule all_success: b may start only when a
\* has succeeded.
DepsMet(r, i) == IF i = 1 THEN TRUE ELSE ti[r][chain[i - 1]] = "success"

\* Variant: a blocked task is recorded as failed itself.
BlockedState_failed(up) == IF up \in { "failed", "upstream_failed" } THEN "failed" ELSE "none"

\* A task whose upstream failed, or was itself not run for that reason, is
\* never run.
BlockedState(up) == IF up \in { "failed", "upstream_failed" } THEN "upstream_failed" ELSE "none"

\* State of a failed attempt: retried while attempts remain, else failed.
FailState(r, t, retryable) ==
  IF retryable /\ tries[r][t] <= retries THEN "up_for_retry" ELSE "failed"

\* Variant: the run takes the state of its first task.
RunState_first(r) == IF ti[r][chain[1]] = "success" THEN "success" ELSE "failed"

\* State of a run whose tasks have all finished: that of its only leaf.
RunState(r) == IF ti[r][chain[ArchiveIdx]] = "success" THEN "success" ELSE "failed"

\* Variants: the deadline compared with >=, and against the poke interval.
TimedOut_at_or_after(d) == d >= timeout
TimedOut_early(d) == d > poke_interval

\* run_duration() > self.timeout, evaluated after a check that was not positive.
TimedOut(d) == d > timeout

\* Variant: nothing matched counts as done.
ArchiveOk_zero_ok(m, deleted) == deleted = m

\* gsutil exits 0 iff something matched and every matched object was moved.
ArchiveOk(m, deleted) == m # {} /\ deleted = m

\* Variant: a task does not wait for the task before it.
Startable_unordered(r, i) ==
  /\ dagrun[r] = "running"
  /\ ti[r][chain[i]] \in { "none", "up_for_retry" }

\* A task instance the scheduler may hand to a worker.
Startable(r, i) ==
  /\ dagrun[r] = "running"
  /\ ti[r][chain[i]] \in { "none", "up_for_retry" }
  /\ DepsMet(r, i)

Min(a, b) == IF a <= b THEN a ELSE b

\* ----------------------------------------------------------------- actions
\* The external scheduler creates the next run once the earlier one is over;
\* the new run has no sensor process and no archive command yet.
Trigger(r) ==
  /\ dagrun[r] = "none"
  /\ IF r = 1 THEN TRUE ELSE dagrun[r - 1] \in Terminal
  /\ dagrun' = [ dagrun EXCEPT ![r] = "queued" ]
  /\ sensor' = Idle
  /\ gsutil' = NoCommand
  /\ UNCHANGED << ti, tries, err, raw, archive, jobs, refusal, hive, loaded >>

StartRun(r) ==
  /\ dagrun[r] = "queued"
  /\ dagrun' = [ dagrun EXCEPT ![r] = "running" ]
  /\ UNCHANGED << ti, tries, err, raw, archive, jobs, refusal, hive, loaded, sensor, gsutil >>

\* The sensor's execute() starts: the clock of run_duration() starts at 0.
SenseStart(r) ==
  /\ Startable(r, SenseIdx)
  /\ ti' = [ ti EXCEPT ![r][chain[SenseIdx]] = "running" ]
  /\ tries' = [ tries EXCEPT ![r][chain[SenseIdx]] = @ + 1 ]
  /\ LET there == \E o \in raw : HasPrefix(o)
     IN  sensor' = [ Idle EXCEPT !.pc = "sleeping", !.run = r,
                                !.first_seen = IF there THEN 0 ELSE NoTime,
                                !.appeared = there ]
  /\ UNCHANGED << dagrun, err, raw, archive, jobs, refusal, hive, loaded, gsutil >>

\* One existence check is sent: it reads the bucket now, or raises.
PokeBegin(r) ==
  /\ sensor.run = r
  /\ sensor.pc = "sleeping"
  /\ sensor.elapsed >= sensor.wake_at
  /\ \E raised \in BOOLEAN :
       sensor' = [ sensor EXCEPT !.pc = "poking",
                                 !.prev_start = sensor.poke_start,
                                 !.poke_start = sensor.elapsed,
                                 !.pokes = @ + 1,
                                 !.saw = IF raised THEN "error"
                                         ELSE IF poke(raw) THEN "true" ELSE "false" ]
  /\ UNCHANGED << dagrun, ti, tries, err, raw, archive, jobs, refusal, hive, loaded, gsutil >>

\* The check returns to the loop of execute().
PokeReturn(r) ==
  /\ sensor.run = r
  /\ sensor.pc = "poking"
  /\ LET t == chain[SenseIdx]
         done == [ sensor EXCEPT !.pc = "done", !.done_at = sensor.elapsed ]
     IN  IF sensor.saw = "error" /\ ~silent_fail
         THEN /\ ti' = [ ti EXCEPT ![r][t] = FailState(r, t, TRUE) ]
              /\ err' = [ err EXCEPT ![r][t] = "AirflowException" ]
              /\ sensor' = done
         ELSE IF sensor.saw = "true"
         THEN /\ ti' = [ ti EXCEPT ![r][t] = "success" ]
              /\ sensor' = [ done EXCEPT !.first_ok = (sensor.pokes = 1) ]
              /\ UNCHANGED err
         ELSE IF TimedOut(sensor.elapsed)
         THEN /\ ti' = [ ti EXCEPT ![r][t] = FailState(r, t, FALSE) ]
              /\ err' = [ err EXCEPT ![r][t] = "AirflowSensorTimeout" ]
              /\ sensor' = done
         ELSE /\ sensor' = [ sensor EXCEPT !.pc = "sleeping",
                                           !.wake_at = sensor.elapsed + poke_interval ]
              /\ UNCHANGED << ti, err >>
  /\ UNCHANGED << dagrun, tries, raw, archive, jobs, refusal, hive, loaded, gsutil >>

\* Time passes while a check is in flight or the sensor sleeps.
Tick(unit) ==
  /\ \/ /\ sensor.pc = "poking"
        /\ sensor.elapsed - sensor.poke_start < MaxPokeLatency * unit
        /\ sensor' = [ sensor EXCEPT !.elapsed = @ + unit ]
     \/ /\ sensor.pc = "sleeping"
        /\ sensor.elapsed < sensor.wake_at
        /\ sensor' = [ sensor EXCEPT !.elapsed = Min(@ + unit, sensor.wake_at) ]
  /\ UNCHANGED << dagrun, ti, tries, err, raw, archive, jobs, refusal, hive, loaded, gsutil >>

\* An object lands in logistics_raw. Each name lands once, and the csv files
\* are numbered in the order they land.
Landed(o) == o \in raw \/ ArchiveKey(o) \in archive

Land(o) ==
  /\ ~Landed(o)
  /\ \A i \in 2..NumCsv : o = CsvObject(i) => Landed(CsvObject(i - 1))
  /\ raw' = raw \cup { o }
  /\ sensor' = IF /\ sensor.pc \in { "sleeping", "poking" }
                  /\ sensor.first_seen = NoTime
                  /\ \E p \in raw' : HasPrefix(p)
               THEN [ sensor EXCEPT !.first_seen = sensor.elapsed, !.appeared = TRUE ]
               ELSE sensor
  /\ UNCHANGED << dagrun, ti, tries, err, archive, jobs, refusal, hive, loaded, gsutil >>

\* A DataprocSubmitJobOperator starts; the sensor's process has exited by then.
JobStart(r, k) ==
  /\ Startable(r, k)
  /\ ti' = [ ti EXCEPT ![r][chain[k]] = "running" ]
  /\ tries' = [ tries EXCEPT ![r][chain[k]] = @ + 1 ]
  /\ sensor' = IF sensor.pc = "done" THEN Exited(sensor) ELSE sensor
  /\ UNCHANGED << dagrun, err, raw, archive, jobs, refusal, hive, loaded, gsutil >>

\* The submitted job ends, or the submission is refused: a job id that
\* Dataproc already holds is refused. A job that ends DONE has run its
\* statement: CREATE ... IF NOT EXISTS adds what is missing, INSERT ... SELECT
\* appends the rows of every file of logistics_data; the rows are followed for
\* the files in the set followed.
JobFinish(r, k, followed) ==
  /\ ti[r][chain[k]] = "running"
  /\ \E outcome \in { "DONE", "ERROR", "REFUSED" } :
       LET t == chain[k]
           holder == jobs[job_id[t]]
           known == holder # 0
           ok == ~known /\ outcome = "DONE" /\ Requires[t] \subseteq hive
       IN  /\ jobs' = IF known \/ outcome = "REFUSED" THEN jobs
                      ELSE [ jobs EXCEPT ![job_id[t]] = r ]
           /\ refusal' = [ refusal EXCEPT ![r][t] = holder ]
           /\ hive' = IF ok THEN hive \cup Creates[t] ELSE hive
           /\ loaded' = IF ok /\ t = LoadTask
                         THEN [ loaded EXCEPT ![r] = TableFiles(raw) \cap followed ]
                         ELSE loaded
           /\ ti' = [ ti EXCEPT ![r][t] = IF ok THEN "success"
                                          ELSE FailState(r, t, TRUE) ]
           /\ err' = [ err EXCEPT ![r][t] = IF ok THEN @ ELSE "AirflowException" ]
  /\ UNCHANGED << dagrun, tries, raw, archive, sensor, gsutil >>

ArchiveStart(r) ==
  /\ Startable(r, ArchiveIdx)
  /\ ti' = [ ti EXCEPT ![r][chain[ArchiveIdx]] = "running" ]
  /\ tries' = [ tries EXCEPT ![r][chain[ArchiveIdx]] = @ + 1 ]
  /\ UNCHANGED << dagrun, err, raw, archive, jobs, refusal, hive, loaded, sensor, gsutil >>

\* gsutil -m mv: each matched object is copied, then deleted at the source;
\* either half may fail for any object.
ArchiveFinish(r) ==
  /\ ti[r][chain[ArchiveIdx]] = "running"
  /\ LET t == chain[ArchiveIdx]
         m == Matched(raw)
     IN  \E copied \in SUBSET m :
           \E deleted \in Deletions(m, copied) :
             /\ archive' = archive \cup { ArchiveKey(o) : o \in copied }
             /\ raw' = raw \ deleted
             /\ gsutil' = [ run |-> r, matched |-> m, moved |-> deleted ]
             /\ ti' = [ ti EXCEPT ![r][t] = IF ArchiveOk(m, deleted) THEN "success"
                                            ELSE FailState(r, t, TRUE) ]
             /\ err' = [ err EXCEPT ![r][t] = IF ArchiveOk(m, deleted) THEN @
                                              ELSE "AirflowException" ]
  /\ UNCHANGED << dagrun, tries, jobs, refusal, hive, loaded, sensor >>

\* The scheduler marks a task whose upstream did not succeed.
PropagateUpstreamFailed(r, k) ==
  /\ dagrun[r] = "running"
  /\ k > 1
  /\ ti[r][chain[k]] = "none"
  /\ BlockedState(ti[r][chain[k - 1]]) # "none"
  /\ ti' = [ ti EXCEPT ![r][chain[k]] = BlockedState(ti[r][chain[k - 1]]) ]
  /\ sensor' = IF sensor.pc = "done" THEN Exited(sensor) ELSE sensor
  /\ UNCHANGED << dagrun, tries, err, raw, archive, jobs, refusal, hive, loaded, gsutil >>

\* The scheduler closes a run whose tasks have all finished.
UpdateState(r) ==
  /\ dagrun[r] = "running"
  /\ \A t \in Tasks : ti[r][t] \in Finished
  /\ dagrun' = [ dagrun EXCEPT ![r] = RunState(r) ]
  /\ UNCHANGED << ti, tries, err, raw, archive, jobs, refusal, hive, loaded, sensor, gsutil >>

\* Between runs somebody deletes the finished jobs from Dataproc.
DeleteJobs ==
  /\ \E j \in JobIds : jobs[j] # 0
  /\ \A r \in Runs : dagrun[r] # "running"
  /\ jobs' = [ j \in JobIds |-> 0 ]
  /\ UNCHANGED << dagrun, ti, tries, err, raw, archive, refusal, hive, loaded,
                  sensor, gsutil >>

Step(nruns, unit, landing, followed) ==
  \/ \E r \in 1..nruns :
       \/ Trigger(r)
       \/ StartRun(r)
       \/ SenseStart(r)
       \/ PokeBegin(r)
       \/ PokeReturn(r)
       \/ ArchiveStart(r)
       \/ ArchiveFinish(r)
       \/ UpdateState(r)
       \/ \E k \in JobIdxs : JobStart(r, k) \/ JobFinish(r, k, followed)
       \/ \E k \in 2..Len(chain) : PropagateUpstreamFailed(r, k)
  \/ Tick(unit)
  \/ \E o \in landing : Land(o)
  \/ DeleteJobs

\* Runs one after the other, on a coarse clock: a sleep is one tick, and a
\* check either takes no time or outlasts the deadline. Only objects under the
\* sensed prefix land, and the rows of no file are followed into the table.
Next == Step(MaxRuns, timeout, { o \in Objects : HasPrefix(o) }, {})

Spec == Init /\ [][Next]_vars

\* One run; the clock ticks PollSlices times per poke interval, and any object
\* lands.
NextSense == Step(1, poke_interval \div PollSlices, Objects, {})

SenseSpec == Init /\ [][NextSense]_vars

\* The scheduler creates the next run while the earlier one is still running
\* (the DAG sets no max_active_runs of 1): here once the earlier run's sensor
\* process has exited, so that the runs overlap in their job and archive steps.
Overlap(r) ==
  /\ dagrun[r] = "none"
  /\ dagrun[r - 1] = "running"
  /\ sensor.pc = "exited"
  /\ dagrun' = [ dagrun EXCEPT ![r] = "queued" ]
  /\ sensor' = Idle
  /\ UNCHANGED << ti, tries, err, raw, archive, jobs, refusal, hive, loaded, gsutil >>

\* Runs that may overlap; only csv files land.
NextOverlap ==
  \/ Step(MaxRuns, timeout, { o \in Objects : MatchesPattern(o) }, {})
  \/ \E r \in 2..MaxRuns : Overlap(r)

OverlapSpec == Init /\ [][NextOverlap]_vars

\* Runs one after the other as in Spec, with the rows of every file followed
\* into logistics_data_partitioned.
NextLoad == Step(MaxRuns, timeout, { o \in Objects : HasPrefix(o) }, Objects)

LoadSpec == Init /\ [][NextLoad]_vars

\* What the scheduler, the workers and the clock do, as opposed to what
\* triggers runs, lands objects or deletes jobs.
RunStep(r) ==
  \/ StartRun(r)
  \/ SenseStart(r)
  \/ PokeBegin(r)
  \/ PokeReturn(r)
  \/ ArchiveStart(r)
  \/ ArchiveFinish(r)
  \/ UpdateState(r)
  \/ \E k \in JobIdxs : JobStart(r, k) \/ JobFinish(r, k, {})
  \/ \E k \in 2..Len(chain) : PropagateUpstreamFailed(r, k)

Advance(unit) == Tick(unit) \/ \E r \in Runs : RunStep(r)

\* Runs one after the other on a clock that ticks once per poke interval; one
\* csv file lands. The scheduler and the workers keep going,
\* time passes, every check answers, every submitted job reports a final state
\* and the archive command returns.
NextLive == Step(MaxRuns, poke_interval, { CsvObject(1) }, {})

LiveSpec == Init /\ [][NextLive]_vars /\ WF_vars(Advance(poke_interval))

\* ------------------------------------------------------------ properties
Sense == chain[SenseIdx]
Archiving == chain[ArchiveIdx]
IsTerminal(r) == dagrun[r] \in Terminal
AllOk(r) == \A t \in Tasks : ti[r][t] = "success"
FailedSteps(r) == { i \in 1..Len(chain) : ti[r][chain[i]] = "failed" }
NeverInvokedAfter(r, i) == \A j \in (i + 1)..Len(chain) : tries[r][chain[j]] = 0
JobsAllOk(r) == \A k \in JobIdxs : ti[r][chain[k]] = "success"

\* C1: a step is started only after the step before it succeeded, and once a
\* step has ended non-ok no later step of that run is ever invoked.
C1_FailFastGating ==
  \A r \in Runs : \A i \in 1..(Len(chain) - 1) :
    /\ tries[r][chain[i + 1]] > 0 => ti[r][chain[i]] = "success"
    /\ ti[r][chain[i]] \in { "failed", "upstream_failed" } => NeverInvokedAfter(r, i)

\* A run that ended after create_hive_table failed: nothing later was invoked.
C1_Witness ==
  \E r \in Runs :
    /\ dagrun[r] = "failed"
    /\ ti[r]["create_hive_table"] = "failed"
    /\ tries[r]["create_hive_database"] = 1
    /\ NeverInvokedAfter(r, 3)

\* C2 as stated: a terminal run is succeeded iff all six steps were ok, and
\* otherwise carries the result of its first non-ok step, timed_out for a
\* sense step that ran out of time and failed for anything else.
C2_StatusOfFirstNonOk ==
  \A r \in Runs :
    IsTerminal(r) =>
      /\ dagrun[r] = "success" <=> AllOk(r)
      /\ ~AllOk(r) =>
           dagrun[r] = IF err[r][Sense] = "AirflowSensorTimeout"
                       THEN "timed_out" ELSE "failed"

\* C2 amended: a terminal run is success iff all six steps were ok, and
\* otherwise it is failed whichever step was the first non-ok one; exactly one
\* step is failed, all before it succeeded and all after it are
\* upstream_failed, and a timeout shows only as the sense task's error.
C2_TerminalStatusLaw ==
  \A r \in Runs :
    IsTerminal(r) =>
      /\ dagrun[r] = "success" <=> AllOk(r)
      /\ ~AllOk(r) =>
           /\ dagrun[r] = "failed"
           /\ \E k \in 1..Len(chain) :
                /\ FailedSteps(r) = { k }
                /\ err[r][chain[k]] \in { "AirflowSensorTimeout", "AirflowException" }
                /\ err[r][chain[k]] = "AirflowSensorTimeout" => k = SenseIdx
                /\ \A j \in 1..(k - 1) : ti[r][chain[j]] = "success"
                /\ \A j \in (k + 1)..Len(chain) : ti[r][chain[j]] = "upstream_failed"

\* A run whose sense step ran out of time has ended, and ended failed.
C2_Witness ==
  \E r \in Runs :
    /\ dagrun[r] = "failed"
    /\ err[r][Sense] = "AirflowSensorTimeout"
    /\ ti[r][Archiving] = "upstream_failed"

\* C3 as stated: when no object with the prefix ever exists (and no check
\* raises), the run ends timed_out and no job and no archive is invoked.
C3_NeverAppearsEndsTimedOut ==
  \A r \in Runs :
    IsTerminal(r) /\ sensor.run = r /\ ~sensor.appeared /\ err[r][Sense] # "AirflowException" =>
      /\ dagrun[r] = "timed_out"
      /\ NeverInvokedAfter(r, SenseIdx)

\* C3 amended: when no object with the prefix ever exists (and no check
\* raises), the sense task fails with AirflowSensorTimeout, the run ends
\* failed, and no job and no archive is invoked.
C3_NeverAppearsEndsFailed ==
  \A r \in Runs :
    IsTerminal(r) /\ sensor.run = r /\ ~sensor.appeared /\ err[r][Sense] # "AirflowException" =>
      /\ dagrun[r] = "failed"
      /\ ti[r][Sense] = "failed"
      /\ err[r][Sense] = "AirflowSensorTimeout"
      /\ tries[r][Sense] = 1
      /\ NeverInvokedAfter(r, SenseIdx)
      /\ \A j \in 2..Len(chain) : ti[r][chain[j]] = "upstream_failed"

\* A run in which nothing with the prefix existed while sensing has ended,
\* although an object without the prefix was there all along.
C3_Witness ==
  \E r \in Runs :
    /\ IsTerminal(r)
    /\ sensor.run = r
    /\ ~sensor.appeared
    /\ err[r][Sense] = "AirflowSensorTimeout"
    /\ OtherObject \in raw
    /\ NeverInvokedAfter(r, SenseIdx)

\* C4: when a job step k fails after all steps before it succeeded, the run
\* ends failed, the one step recorded as failed is step k (chain position
\* k - 1 counted from sense at 0), and no later step is ever invoked.
C4_FailingStepRecorded ==
  \A r \in Runs : \A k \in JobIdxs :
    ti[r][chain[k]] = "failed" =>
      /\ \A j \in 1..(k - 1) : ti[r][chain[j]] = "success"
      /\ NeverInvokedAfter(r, k)
      /\ err[r][chain[k]] = "AirflowException"
      /\ IsTerminal(r) =>
           /\ dagrun[r] = "failed"
           /\ FailedSteps(r) = { k }
           /\ { chain[i] : i \in FailedSteps(r) } = { chain[k] }
           /\ \A j \in (k + 1)..Len(chain) : ti[r][chain[j]] = "upstream_failed"

\* A run has ended with create_hive_table, at chain position 2 from 0,
\* as its failed step after the database job succeeded.
C4_Witness ==
  \E r \in Runs :
    /\ IsTerminal(r)
    /\ ti[r]["create_hive_database"] = "success"
    /\ FailedSteps(r) = { 3 }
    /\ chain[3] = "create_hive_table"
    /\ tries[r][Archiving] = 0

\* C5 as stated: when the object is there at the first check and every job
\* submission succeeds, the run ends succeeded and the archive moved as many
\* objects as it matched.
C5_SuccessScenario ==
  \A r \in Runs :
    IsTerminal(r) /\ sensor.run = r /\ sensor.first_ok /\ JobsAllOk(r) =>
      /\ dagrun[r] = "success"
      /\ gsutil.run = r
      /\ Cardinality(gsutil.moved) = Cardinality(gsutil.matched)

\* C5 amended: when the object is there at the first check and every job
\* submission succeeds, the archive step is run once, and the run ends
\* succeeded exactly when the archive matched at least one object and moved
\* all it matched (as many moved as matched, none of them left in the source);
\* otherwise it ends failed.
C5_SuccessNeedsArchive ==
  \A r \in Runs :
    IsTerminal(r) /\ sensor.run = r /\ sensor.first_ok /\ JobsAllOk(r) =>
      /\ tries[r][Archiving] = 1
      /\ gsutil.run = r
      /\ dagrun[r] = "success" <=> (gsutil.matched # {} /\ gsutil.moved = gsutil.matched)
      /\ dagrun[r] # "success" => dagrun[r] = "failed" /\ ti[r][Archiving] = "failed"
      /\ dagrun[r] = "success" =>
           /\ Cardinality(gsutil.moved) = Cardinality(gsutil.matched)
           /\ \A o \in gsutil.moved : MatchesPattern(o) /\ ArchiveKey(o) \in archive

\* A run sensed at the first check has ended succeeded with 3 of 3 moved.
C5_Witness ==
  \E r \in Runs :
    /\ dagrun[r] = "success"
    /\ sensor.run = r
    /\ sensor.first_ok
    /\ JobsAllOk(r)
    /\ gsutil.run = r
    /\ Cardinality(gsutil.matched) = 3
    /\ Cardinality(gsutil.moved) = 3

\* C6: an archive step that runs after an earlier run's successful archive
\* and matches no object returns ok with zero objects moved.
C6_ArchiveIdempotent ==
  \A r \in Runs :
    ( /\ ti[r][Archiving] \in { "success", "failed" }
      /\ gsutil.run = r
      /\ gsutil.matched = {}
      /\ \E q \in Runs : q < r /\ ti[q][Archiving] = "success" ) =>
      /\ ti[r][Archiving] = "success"
      /\ gsutil.moved = {}

\* The sense step has returned and its locals are still there to read.
SenseDone == sensor.pc = "done"

\* First multiple of the poke interval that is >= t.
Boundary(t) == ((t + poke_interval - 1) \div poke_interval) * poke_interval

\* The object first existed at a time t < timeout and no check raised.
AppearedInTime ==
  /\ SenseDone
  /\ sensor.saw # "error"
  /\ sensor.first_seen # NoTime
  /\ sensor.first_seen < timeout

\* No object with the prefix existed while sensing and no check raised.
NeverAppeared ==
  /\ SenseDone
  /\ sensor.saw # "error"
  /\ sensor.first_seen = NoTime

\* C7 as stated: an object first there at t < timeout makes the sense step
\* return ok from the check at the first multiple of the poke interval that
\* is >= t (the one after it, when the check at that very instant came first).
C7_OkAtPollBoundary ==
  AppearedInTime =>
    /\ ti[sensor.run][Sense] = "success"
    /\ \/ sensor.poke_start = Boundary(sensor.first_seen)
       \/ /\ sensor.prev_start = sensor.first_seen
          /\ sensor.poke_start = sensor.first_seen + poke_interval

\* C7 amended: an object first there at t < timeout makes the sense step
\* return ok from the first check that starts at or after t and from no later
\* one, checks starting at least a poke interval apart; unless the check in
\* flight at t returns after the timeout, which ends the step timed out.
C7_OkAtFirstCheckAfter ==
  AppearedInTime =>
    \/ /\ ti[sensor.run][Sense] = "success"
       /\ sensor.poke_start >= sensor.first_seen
       /\ sensor.done_at >= sensor.poke_start
       /\ sensor.prev_start # NoTime =>
            /\ sensor.prev_start <= sensor.first_seen
            /\ sensor.poke_start - sensor.prev_start >= poke_interval
    \/ /\ ti[sensor.run][Sense] = "failed"
       /\ err[sensor.run][Sense] = "AirflowSensorTimeout"
       /\ sensor.poke_start <= sensor.first_seen
       /\ sensor.done_at > timeout

\* The object landed between two checks and the later one, started off the
\* multiples of the poke interval, returned ok.
C7_Witness ==
  /\ AppearedInTime
  /\ ti[sensor.run][Sense] = "success"
  /\ sensor.prev_start # NoTime
  /\ sensor.prev_start < sensor.first_seen
  /\ sensor.poke_start % poke_interval # 0

\* C8 as stated: when no object with the prefix ever exists the sense step
\* returns timed_out at the timeout: not before it, and from a check started
\* no later than it.
C8_TimedOutAtTimeout ==
  NeverAppeared =>
    /\ ti[sensor.run][Sense] = "failed"
    /\ err[sensor.run][Sense] = "AirflowSensorTimeout"
    /\ sensor.done_at >= timeout
    /\ sensor.poke_start <= timeout

\* C8 amended: when no object with the prefix ever exists the sense step never
\* returns ok; it returns timed_out from the first check that ends more than
\* timeout after the start, so strictly after the timeout, and that check
\* starts at most one poke interval after the timeout.
C8_TimedOutAfterTimeout ==
  NeverAppeared =>
    /\ ti[sensor.run][Sense] = "failed"
    /\ err[sensor.run][Sense] = "AirflowSensorTimeout"
    /\ sensor.done_at > timeout
    /\ sensor.poke_start <= timeout + poke_interval

\* With checks that take no time the step times out at timeout + poke_interval.
C8_Witness ==
  /\ NeverAppeared
  /\ err[sensor.run][Sense] = "AirflowSensorTimeout"
  /\ sensor.done_at = timeout + poke_interval
  /\ sensor.poke_start = sensor.done_at

\* C9 as stated: a check that raises does not end the sense step, whose only
\* non-ok outcome is timed_out.
C9_CheckErrorAbsorbed ==
  \A r \in Runs :
    /\ ti[r][Sense] = "failed" => err[r][Sense] = "AirflowSensorTimeout"
    /\ sensor.run = r /\ SenseDone => sensor.saw # "error"

\* C9 amended: a check that raises ends the sense step failed at once, with
\* that error, with no further check and no second attempt; the non-ok
\* outcomes of the sense step are a failed check and timed_out.
C9_CheckErrorFailsStep ==
  /\ \A r \in Runs :
       /\ ti[r][Sense] \in { "none", "running", "success", "failed" }
       /\ ti[r][Sense] = "failed" <=>
            err[r][Sense] \in { "AirflowSensorTimeout", "AirflowException" }
  /\ sensor.saw = "error" /\ sensor.pc # "poking" =>
       /\ SenseDone
       /\ ti[sensor.run][Sense] = "failed"
       /\ err[sensor.run][Sense] = "AirflowException"
       /\ tries[sensor.run][Sense] = 1
  /\ SenseDone /\ err[sensor.run][Sense] = "AirflowException" => sensor.saw = "error"

\* The third check raised well before the timeout and the step is failed.
C9_Witness ==
  /\ SenseDone
  /\ sensor.saw = "error"
  /\ sensor.pokes = 3
  /\ sensor.done_at < timeout
  /\ ti[sensor.run][Sense] = "failed"

\* C10: every step of a run is attempted at most once; a failed step is
\* failed for good and is never waiting for a retry.
C10_NoAutomaticRetry ==
  \A r \in Runs : \A t \in Tasks :
    /\ tries[r][t] <= 1
    /\ ti[r][t] # "up_for_retry"
    /\ ti[r][t] \in { "running", "success", "failed" } => tries[r][t] = 1
    /\ err[r][t] # "none" => ti[r][t] = "failed"

\* A run ended failed by its load job, which was submitted once.
C10_Witness ==
  \E r \in Runs :
    /\ dagrun[r] = "failed"
    /\ ti[r]["set_hive_properties_and_load_partitioned"] = "failed"
    /\ tries[r]["set_hive_properties_and_load_partitioned"] = 1

\* Steps of run r that come before the archive step and ended failed.
FailedBeforeArchive(r) == { i \in FailedSteps(r) : i < ArchiveIdx }

\* C11: the archive step is invoked only after the sense step and the four job
\* steps of its run succeeded; it is invoked exactly once in a run that ends
\* succeeded, and never in a run whose first non-ok step comes before it.
C11_ArchiveOnceOnSuccessPath ==
  \A r \in Runs :
    /\ tries[r][Archiving] > 0 => ti[r][Sense] = "success" /\ JobsAllOk(r)
    /\ tries[r][Archiving] <= 1
    /\ dagrun[r] = "success" => tries[r][Archiving] = 1
    /\ FailedBeforeArchive(r) # {} =>
         /\ tries[r][Archiving] = 0
         /\ ti[r][Archiving] \in { "none", "upstream_failed" }

\* One run failed in its load step and never archived; the next one ended
\* succeeded having archived once.
C11_Witness ==
  \E q \in Runs : \E r \in Runs :
    /\ dagrun[q] = "failed"
    /\ ti[q][LoadTask] = "failed"
    /\ tries[q][Archiving] = 0
    /\ dagrun[r] = "success"
    /\ tries[r][Archiving] = 1

\* Number of steps of run r entered so far.
Entered(r) == Cardinality({ i \in 1..Len(chain) : tries[r][chain[i]] > 0 })

Executing(r) == { t \in Tasks : ti[r][t] = "running" }

\* none and queued are the pending statuses of a run.
ForwardStatus ==
  { << "none", "queued" >>, << "queued", "running" >>,
    << "running", "success" >>, << "running", "failed" >> }

\* C12: in every step of the system, a run's status stays or moves forward
\* along pending -> running -> terminal and a terminal status stays; a step of
\* the chain is entered only when it is the next one after those entered so
\* far (the first one entered is the sense step, index 0), none is entered
\* twice, a finished step stays as it ended, and at most one step of a run is
\* executing.
C12_ForwardOnlySequential ==
  [][ \A r \in Runs :
        /\ dagrun'[r] # dagrun[r] => << dagrun[r], dagrun'[r] >> \in ForwardStatus
        /\ \A i \in 1..Len(chain) :
             /\ tries'[r][chain[i]] # tries[r][chain[i]] =>
                  /\ tries[r][chain[i]] = 0
                  /\ tries'[r][chain[i]] = 1
                  /\ i = Entered(r) + 1
                  /\ Entered(r)' = i
                  /\ Executing(r) = {}
                  /\ Executing(r)' = { chain[i] }
             /\ ti[r][chain[i]] \in Finished => ti'[r][chain[i]] = ti[r][chain[i]]
        /\ Cardinality(Executing(r)') <= 1
        /\ dagrun[r] # "running" => Executing(r) = {} ]_vars

\* A run has gone through all six steps and ended succeeded.
C12_Witness ==
  \E r \in Runs :
    /\ dagrun[r] = "success"
    /\ Entered(r) = Len(chain)
    /\ Executing(r) = {}

\* The archive step of run r returned ok and its command is the latest one.
ArchivedOk(r) == ti[r][Archiving] = "success" /\ gsutil.run = r

\* C13 as stated: after an archive step that returned ok, every object its
\* pattern matched is in the archive bucket under the object name it had in
\* logistics_raw and is gone from there, and nothing else was moved.
C13_MovedUnderSameName ==
  \A r \in Runs :
    ArchivedOk(r) =>
      /\ \A o \in gsutil.matched : o \in archive /\ o \notin raw
      /\ \A o \in gsutil.moved : MatchesPattern(o)

\* C13 amended: after an archive step that returned ok, every object its
\* pattern matched is gone from logistics_raw and is in the archive bucket
\* under its file name alone, the input_data/ part of its object name dropped;
\* only objects matching input_data/logistics_*.csv were moved, and no step of
\* the system removes a non-matching object from logistics_raw or puts it in
\* the archive.
C13_MovedUnderFileName ==
  /\ [](\A r \in Runs :
          ArchivedOk(r) =>
            /\ gsutil.moved = gsutil.matched
            /\ \A o \in gsutil.matched :
                 /\ MatchesPattern(o)
                 /\ o \notin raw
                 /\ o \notin archive
                 /\ << o[2], o[3], o[4] >> \in archive)
  /\ [][ \A o \in Objects :
           ~MatchesPattern(o) =>
             /\ o \in raw => o \in raw'
             /\ ArchiveKey(o) \notin archive' /\ o \notin archive' ]_vars

\* An archive step returned ok having moved two csv files, and the text file
\* that was there with them is still in logistics_raw.
C13_Witness ==
  \E r \in Runs :
    /\ ArchivedOk(r)
    /\ Cardinality(gsutil.matched) = 2
    /\ TxtObject \in raw
    /\ << "logistics_", "1", ".csv" >> \in archive

\* The archive step of run r reported failed and its command is the latest.
ArchiveFailed(r) == ti[r][Archiving] = "failed" /\ gsutil.run = r

\* The archive step of run r returns in this step, its command having moved
\* every object it matched, at least one.
ArchiveUnhindered(r) ==
  /\ ti[r][Archiving] = "running"
  /\ ti'[r][Archiving] # "running"
  /\ Matched(raw) # {}
  /\ raw' = raw \ Matched(raw)

\* C14 as stated: after an archive step that reported failed having moved
\* some of the matched objects, each matched object is in exactly one of
\* logistics_raw and the archive; and an archive step that then meets no
\* obstacle returns ok with the rest moved.
C14_PartialNeitherLostNorDuplicated ==
  /\ [](\A r \in Runs :
          ArchiveFailed(r) /\ gsutil.moved # {} =>
            \A o \in gsutil.matched : (o \in raw) # (ArchiveKey(o) \in archive))
  /\ [][ \A r \in Runs :
           ArchiveUnhindered(r) => ti'[r][Archiving] = "success" ]_vars

\* C14 amended: after an archive step that reported failed, no matched object
\* is lost: each is still in logistics_raw or is in the archive, and it is in
\* both when it was copied but not deleted; the objects not moved are still in
\* logistics_raw and still match, so that an archive step that then meets no
\* obstacle moves them and returns ok.
C14_PartialNotLostAndResumable ==
  /\ [](\A r \in Runs :
          ArchiveFailed(r) =>
            /\ \A o \in gsutil.matched :
                 /\ o \in raw \/ ArchiveKey(o) \in archive
                 /\ o \in gsutil.moved <=> o \notin raw
                 /\ o \in gsutil.moved => ArchiveKey(o) \in archive
            /\ gsutil.matched # {} =>
                 /\ gsutil.matched \ gsutil.moved # {}
                 /\ gsutil.matched \ gsutil.moved \subseteq Matched(raw))
  /\ [][ \A r \in Runs :
           ArchiveUnhindered(r) =>
             /\ ti'[r][Archiving] = "success"
             /\ Matched(raw') = {}
             /\ \A o \in Matched(raw) : ArchiveKey(o) \in archive' ]_vars

\* The archive step of one run failed having moved some csv files, and the
\* archive step of the next run moved the rest and returned ok.
C14_Witness ==
  \E q \in Runs : \E r \in Runs :
    /\ q < r
    /\ ti[q][Archiving] = "failed"
    /\ ArchivedOk(r)
    /\ gsutil.moved # {}
    /\ Cardinality(archive) > Cardinality(gsutil.moved)
    /\ Matched(raw) = {}

\* Runs q and r are both under way.
BothActive(q, r) == q # r /\ dagrun[q] = "running" /\ dagrun[r] = "running"

\* C15: while two runs are active, no step of one has been failed on account
\* of a step of the other: no job submission of run r is refused for the job
\* id that run q's submission holds.
C15_IndependentRuns ==
  \A q \in Runs : \A r \in Runs :
    BothActive(q, r) =>
      \A k \in JobIdxs :
        ~( /\ ti[r][chain[k]] = "failed"
           /\ refusal[r][chain[k]] = q )

\* C16: after a run q that failed, what its completed job steps created is
\* still there, and in a later run r no job step that had completed in q is
\* failed by the submission being refused on account of q's: re-submitting it
\* does not fail.
C16_SafeFullRerun ==
  \A q \in Runs : \A r \in Runs :
    q < r /\ dagrun[q] = "failed" =>
      \A k \in JobIdxs :
        ti[q][chain[k]] = "success" =>
          /\ Creates[chain[k]] \subseteq hive
          /\ ~( /\ ti[r][chain[k]] = "failed"
                /\ refusal[r][chain[k]] = q )

\* C17: every object the archive command of a run moved out of logistics_raw
\* is one whose rows that run's load step inserted.
C17_ArchivedOnlyIfLoaded ==
  \A r \in Runs :
    gsutil.run = r => gsutil.moved \subseteq loaded[r]

\* Runs whose load step inserted the rows of object o.
LoadedBy(o) == { r \in Runs : o \in loaded[r] }

\* C18: the rows of an object are inserted by at most one execution of the
\* load step.
C18_LoadedAtMostOnce ==
  \A o \in Objects : Cardinality(LoadedBy(o)) <= 1

\* C19: once the sense step has returned ok, the archive pattern matches at
\* least one object of logistics_raw (nothing is removed from the bucket
\* between the positive check and the archive step).
C19_SenseImpliesArchiveMatch ==
  \A r \in Runs :
    sensor.run = r /\ SenseDone /\ ti[r][Sense] = "success" => Matched(raw) # {}

\* C20: every run that was triggered eventually ends success or failed.
C20_EveryRunTerminates ==
  \A r \in Runs : (dagrun[r] = "queued") ~> IsTerminal(r)

\* Every run has ended, one of them after its sensor polled to the timeout
\* without an object, another after the whole chain.
C20_Witness ==
  /\ \A r \in Runs : IsTerminal(r)
  /\ \E r \in Runs : err[r][Sense] = "AirflowSensorTimeout"
  /\ \E r \in Runs : tries[r][Archiving] = 1

====
